---------------------------- MODULE Spec2Model ----------------------------
(***************************************************************************)
(* Repeater directory of aprs-assistant: the ingestion script              *)
(* (tools/parse_repeaters/create_db.py) and the two query operations       *)
(* search_repeaters_by_location / search_repeaters_by_callsign             *)
(* (src/aprs_assistant/_repeaters.py).                                     *)
(*                                                                         *)
(* Number representation.  TLC has 32-bit integers only, so the floating   *)
(* point quantities of the program are fixed-point integers:               *)
(*   - latitudes/longitudes in degrees are held in millidegrees (mdeg);    *)
(*   - angles in radians are held in microradians (urad);                  *)
(*   - values of sin/cos and the haversine term are scaled by S = 10^9;    *)
(*   - distances in kilometres are held in metres;                         *)
(*   - frequencies are integral Hz, band edges in MHz are held in units    *)
(*     of 10^-4 MHz.                                                       *)
(* The geodesy follows the formulas of the `haversine` package that        *)
(* _repeaters.py imports (haversine, inverse_haversine, Direction, mean    *)
(* earth radius 6371.0088 km).                                             *)
(***************************************************************************)
EXTENDS Integers, Sequences, FiniteSets, TLC

(***************************************************************************)
(* Fixed-point arithmetic                                                  *)
(***************************************************************************)
S == 10^9
K == 10^3
PI == 3141593
HALFPI == 1570796
TWOPI == 6283185

Abs(a) == IF a < 0 THEN -a ELSE a
Sign(a) == IF a < 0 THEN -1 ELSE 1
Min(a, b) == IF a < b THEN a ELSE b
Max(a, b) == IF a < b THEN b ELSE a

\* x*y/S for 0 <= x, y <= S, by limbs of 10^3 so that no product overflows.
MulAbs(x, y) ==
  LET x2 == x \div (K * K)  x1 == (x \div K) % K  x0 == x % K
      y2 == y \div (K * K)  y1 == (y \div K) % K  y0 == y % K
      low == (x1 * y0 + x0 * y1 + (x0 * y0) \div K) \div K
      mid == (x2 * y0 + x1 * y1 + x0 * y2 + low) \div K
  IN  x2 * y2 * K + x2 * y1 + x1 * y2 + mid

\* a*b/S for |a|, |b| <= S.
MulS(a, b) == Sign(a) * Sign(b) * MulAbs(Abs(a), Abs(b))

\* Taylor series of sin in Horner form, written in the half angle u = x/2 so
\* that every factor stays below S:
\*   sin x = 2u (1 - 4u^2/6 (1 - 4u^2/20 (1 - 4u^2/42 ( ... ))))
\* SinDivisors[k] is (2k)(2k+1)/2.
SinDivisors == <<3, 10, 21, 36, 55, 78, 105>>

RECURSIVE SinTail(_, _)
SinTail(u2, k) ==
  IF k > Len(SinDivisors) THEN S
  ELSE S - (2 * MulAbs(u2, SinTail(u2, k + 1))) \div SinDivisors[k]

\* u * tail(u*u) for the half angle u
SinHalf(u) == MulAbs(u, SinTail(MulAbs(u, u), 1))

\* sin of a first-quadrant angle n in nanoradians (0 <= n <= pi/2), scaled
\* by S and never above 1.
HALFPI_N == 1570796327
SinQ(n) == Min(S, 2 * SinHalf(n \div 2))

\* math.sin: x in urad (any sign), result scaled by S.
sin(x) ==
  LET r  == Abs(x) % TWOPI
      h  == IF r > PI THEN r - PI ELSE r
      q  == IF h > HALFPI THEN PI - h ELSE h
      sg == (IF x < 0 THEN -1 ELSE 1) * (IF r > PI THEN -1 ELSE 1)
  IN  sg * SinQ(q * K)

\* sin of the signed first-quadrant angle c (nanoradians)
SinOdd(c) == Sign(c) * SinQ(Abs(c))

\* math.cos: x in urad (any sign), result scaled by S; cos h = sin(pi/2 - h).
cos(x) ==
  LET r == Abs(x) % TWOPI
      h == IF r > PI THEN TWOPI - r ELSE r
  IN  SinOdd((HALFPI - h) * K + (HALFPI_N - HALFPI * K))

\* math.radians: mdeg -> urad (pi/180 * 1000 = 17.453293 urad per mdeg),
\* rounded to nearest.
radians(mdeg) ==
  LET a == Abs(mdeg)
  IN  Sign(mdeg) * (a * 17 + (a * 4533 + 5000) \div 10000)

\* math.degrees: urad -> mdeg, rounded to nearest.
degrees(urad) ==
  LET a == Abs(urad)
      q == a \div 174533
      r == a % 174533
  IN  Sign(urad) * (q * 10000 + (r * 10000 + 87266) \div 174533)

\* least x in lo..hi with sin(x) >= v (sin is non-decreasing on 0..HALFPI)
RECURSIVE AsinSearch(_, _, _)
AsinSearch(v, lo, hi) ==
  IF lo >= hi THEN lo
  ELSE LET mid == (lo + hi) \div 2
       IN  IF sin(mid) >= v THEN AsinSearch(v, lo, mid)
                            ELSE AsinSearch(v, mid + 1, hi)

\* math.asin: v scaled by S, result in urad.
asin(v) ==
  IF Abs(v) >= S THEN Sign(v) * HALFPI
  ELSE Sign(v) * AsinSearch(Abs(v), 0, HALFPI)

\* greatest t in lo..hi with y*cos t - x*sin t >= 0, for y > 0
RECURSIVE Atan2Search(_, _, _, _)
Atan2Search(y, x, lo, hi) ==
  IF lo >= hi THEN lo
  ELSE LET mid == (lo + hi + 1) \div 2
       IN  IF MulS(y, cos(mid)) - MulS(x, sin(mid)) >= 0
           THEN Atan2Search(y, x, mid, hi)
           ELSE Atan2Search(y, x, lo, mid - 1)

\* math.atan2: y, x scaled by S, result in urad in (-pi, pi].
atan2(y, x) ==
  IF y = 0 THEN (IF x >= 0 THEN 0 ELSE PI)
  ELSE Sign(y) * Atan2Search(Abs(y), x, 0, PI)

\* least r in lo..hi with r*r/S >= h
RECURSIVE SqrtSearch(_, _, _)
SqrtSearch(h, lo, hi) ==
  IF lo >= hi THEN lo
  ELSE LET mid == (lo + hi) \div 2
       IN  IF MulS(mid, mid) >= h THEN SqrtSearch(h, lo, mid)
                                  ELSE SqrtSearch(h, mid + 1, hi)

\* math.sqrt on [0, 1]: h and the result scaled by S.
sqrt(h) == SqrtSearch(Min(Max(h, 0), S), 0, S)

(***************************************************************************)
(* Geodesy: the haversine package                                          *)
(***************************************************************************)
\* _AVG_EARTH_RADIUS_KM = 6371.0088, in metres
AVG_EARTH_RADIUS_M == 6371009

\* Direction.NORTH = 0, EAST = pi/2, SOUTH = pi, WEST = 3*pi/2 (urad)
NORTH == 0
EAST == 1570796
SOUTH == 3141593
WEST == 4712389

\* distance / r: metres -> urad, the quotient m * 10^6 / r by long division.
ArcOfDistance(m) ==
  LET q0 == m \div AVG_EARTH_RADIUS_M
      r0 == m % AVG_EARTH_RADIUS_M
      q1 == (r0 * 100) \div AVG_EARTH_RADIUS_M
      r1 == (r0 * 100) % AVG_EARTH_RADIUS_M
      q2 == (r1 * 100) \div AVG_EARTH_RADIUS_M
      r2 == (r1 * 100) % AVG_EARTH_RADIUS_M
      q3 == (r2 * 100) \div AVG_EARTH_RADIUS_M
  IN  q0 * 1000000 + q1 * 10000 + q2 * 100 + q3

\* r * angle: urad (0..pi) -> metres, angle * 6.371009.
DistanceOfArc(urad) == urad * 6 + (urad * 371 + (urad * 9) \div K) \div K

\* x * 0.5
Half(x) == Sign(x) * (Abs(x) \div 2)

\* x * x
Square(x) == MulS(x, x)

\* d = sin(lat*0.5)**2 + cos(lat1)*cos(lat2)*sin(lng*0.5)**2, angles in urad
_haversine_d(lat1, lng1, lat2, lng2) ==
  Square(sin(Half(lat2 - lat1)))
    + MulS(MulS(cos(lat1), cos(lat2)), Square(sin(Half(lng2 - lng1))))

\* _haversine_kernel: central angle (urad) between two points given in mdeg.
_haversine_kernel(lat1, lng1, lat2, lng2) ==
  2 * asin(sqrt(_haversine_d(radians(lat1), radians(lng1),
                             radians(lat2), radians(lng2))))

\* haversine(point1, point2, unit=Unit.KILOMETERS): metres.
haversine(point1, point2) ==
  DistanceOfArc(_haversine_kernel(point1[1], point1[2], point2[1], point2[2]))

\* The body of inverse_haversine, one operator per group of its local
\* variables.  Last: return_lng = lng + atan2(sin(brng) * sin_d * cos_lat,
\* cos_d - sin_lat * sin(return_lat)), and the result in degrees.
_return_point(lng, sin_brng, cos_d, sin_lat, sin_d_cos_lat, return_lat) ==
  <<degrees(return_lat),
    degrees(lng + atan2(MulS(sin_brng, sin_d_cos_lat),
                        cos_d - MulS(sin_lat, sin(return_lat))))>>

\* return_lat = asin(cos_d * sin_lat + sin_d * cos_lat * cos(brng))
_return_lat(lng, sin_brng, cos_brng, cos_d, sin_lat, sin_d_cos_lat) ==
  _return_point(lng, sin_brng, cos_d, sin_lat, sin_d_cos_lat,
                asin(MulS(cos_d, sin_lat) + MulS(sin_d_cos_lat, cos_brng)))

\* cos_d, sin_lat, sin_d * cos_lat and the sine and cosine of the bearing
_inverse_haversine_rad(lat, lng, d, brng) ==
  _return_lat(lng, sin(brng), cos(brng), cos(d), sin(lat),
              MulS(sin(d), cos(lat)))

\* inverse_haversine(point, distance, direction, unit=Unit.KILOMETERS):
\* the point reached from `point` after `distance` metres on the initial
\* bearing `direction`, as <<lat, lng>> in mdeg.  The longitude is returned
\* as computed, lng + atan2(..): it is not wrapped into [-180, 180].
inverse_haversine(point, distance, direction) ==
  _inverse_haversine_rad(radians(point[1]), radians(point[2]),
                         ArcOfDistance(distance), direction)

(***************************************************************************)
(* Text: str values are sequences of one-character strings                 *)
(***************************************************************************)
\* SQL NULL / JSON null / Python None for a text value
NULL == <<"NULL">>

LowerLetters == <<"a","b","c","d","e","f","g","h","i","j","k","l","m",
                  "n","o","p","q","r","s","t","u","v","w","x","y","z">>
UpperLetters == <<"A","B","C","D","E","F","G","H","I","J","K","L","M",
                  "N","O","P","Q","R","S","T","U","V","W","X","Y","Z">>

\* upper case of one character
UpperChar(c) ==
  IF \E i \in 1..26 : LowerLetters[i] = c
  THEN UpperLetters[CHOOSE i \in 1..26 : LowerLetters[i] = c]
  ELSE c

\* str.upper
Upper(s) == [i \in 1..Len(s) |-> UpperChar(s[i])]

Whitespace == {" ", "\t", "\n", "\r"}

\* str.strip
RECURSIVE StripLeft(_)
StripLeft(s) ==
  IF s # <<>> /\ Head(s) \in Whitespace THEN StripLeft(Tail(s)) ELSE s
RECURSIVE StripRight(_)
StripRight(s) ==
  IF s # <<>> /\ s[Len(s)] \in Whitespace
  THEN StripRight(SubSeq(s, 1, Len(s) - 1)) ELSE s
Strip(s) == StripRight(StripLeft(s))

(***************************************************************************)
(* re.search for the pattern dialect the mode constants use (MODE_FM =     *)
(* ^FM$, MODE_DMR = DMR, MODE_YSF = YSF, MODE_D_STAR = D\-?STAR): literal  *)
(* characters, backslash escapes, the postfix ?, and the anchors ^ and $.  *)
(***************************************************************************)
MetaOpen == {"(", "["}

\* re.compile succeeds: no unterminated group or set, no dangling escape,
\* no ? with nothing to repeat.
RECURSIVE ValidFrom(_, _)
ValidFrom(p, i) ==
  IF i > Len(p) THEN TRUE
  ELSE IF p[i] = "\\" THEN i < Len(p) /\ ValidFrom(p, i + 2)
  ELSE IF p[i] \in MetaOpen THEN FALSE
  ELSE IF p[i] = "?" THEN i > 1 /\ p[i - 1] \notin {"^", "?"} /\ ValidFrom(p, i + 1)
  ELSE ValidFrom(p, i + 1)
ValidPattern(p) == ValidFrom(p, 1)

\* the pattern from position i matches s starting at position j
RECURSIVE MatchHere(_, _, _, _)
MatchHere(p, i, s, j) ==
  IF i > Len(p) THEN TRUE
  ELSE IF p[i] = "^" THEN j = 1 /\ MatchHere(p, i + 1, s, j)
  ELSE IF p[i] = "$" THEN j = Len(s) + 1 /\ MatchHere(p, i + 1, s, j)
  ELSE LET w    == IF p[i] = "\\" THEN 2 ELSE 1
           c    == IF p[i] = "\\" THEN p[i + 1] ELSE p[i]
           opt  == i + w <= Len(p) /\ p[i + w] = "?"
           here == j <= Len(s) /\ s[j] = c
       IN  IF opt
           THEN \/ here /\ MatchHere(p, i + w + 1, s, j + 1)
                \/ MatchHere(p, i + w + 1, s, j)
           ELSE here /\ MatchHere(p, i + w, s, j + 1)

\* re.search(p, s) is not None, for a valid pattern and a str
ReSearch(p, s) == \E j \in 1..(Len(s) + 1) : MatchHere(p, 1, s, j)

(***************************************************************************)
(* SQLite: callsign LIKE ? || '%'                                          *)
(***************************************************************************)
\* the LIKE operator: % matches any run of characters, _ any one character,
\* other characters match themselves without regard to ASCII case.
RECURSIVE LikeFrom(_, _, _, _)
LikeFrom(p, i, s, j) ==
  IF i > Len(p) THEN j > Len(s)
  ELSE IF p[i] = "%" THEN \E k \in j..(Len(s) + 1) : LikeFrom(p, i + 1, s, k)
  ELSE IF j > Len(s) THEN FALSE
  ELSE IF p[i] = "_" THEN LikeFrom(p, i + 1, s, j + 1)
  ELSE UpperChar(p[i]) = UpperChar(s[j]) /\ LikeFrom(p, i + 1, s, j + 1)

Like(s, p) == s # NULL /\ LikeFrom(p, 1, s, 1)

(***************************************************************************)
(* Optional numbers: None is the empty tuple, a number x is <<x>>          *)
(***************************************************************************)
None == <<>>
Some(x) == <<x>>

(***************************************************************************)
(* Model inputs                                                            *)
(***************************************************************************)
\* greatest number of records in the ingested JSON file
MaxRecords == 2

Txt_kk7cmt == <<" ", "k", "k", "7", "c", "m", "t">>
Txt_KK7XYZ == <<"K", "K", "7", "X", "Y", "Z">>
Txt_K7ABC  == <<"K", "7", "A", "B", "C">>
Txt_R0AA   == <<"R", "0", "A", "A">>
Txt_KL7P   == <<"K", "L", "7", "P">>
Txt_KK7NUL == <<"K", "K", "7", "N", "U", "L">>
Txt_FM     == <<"F", "M">>
Txt_dmr    == <<"d", "m", "r", " ">>
Txt_DSTAR  == <<"D", "-", "S", "T", "A", "R">>
Txt_YSF    == <<"Y", "S", "F">>

Txt_W7NOP  == <<"W", "7", "N", "O", "P">>
Txt_W7NOF  == <<"W", "7", "N", "O", "F">>
Txt_Kent   == <<" ", "K", "e", "n", "t", " ">>
Txt_club   == <<"c", "l", "u", "b", " ">>
Txt_a_b    == <<" ", "a", " ", "b">>

\* the keys insert_repeater_record looks up in a record, in the order of the
\* lookups
RecordKeys ==
  << "id", "callsign", "latitude", "longitude", "city", "group",
     "internet_node", "mode", "encode", "decode", "frequency", "offset",
     "description", "power", "operational", "restriction" >>

\* one object of repeaters.json with all its keys; `text` is the value of
\* internet_node, encode, decode, description, power and restriction
JsonRecord(id, callsign, latitude, longitude, mode, frequency, city, group, text) ==
  [id |-> id, callsign |-> callsign, latitude |-> latitude,
   longitude |-> longitude, city |-> city, group |-> group,
   internet_node |-> text, mode |-> mode, encode |-> text, decode |-> text,
   frequency |-> frequency, offset |-> -600000, description |-> text,
   power |-> text, operational |-> TRUE, restriction |-> text]

\* records of repeaters.json with every key present (a value may be null)
FullRecords ==
  { JsonRecord(1, Txt_kk7cmt, 47000, -122000, Txt_FM, 146000000,
               Txt_Kent, Txt_club, Txt_a_b),
    JsonRecord(2, Txt_KK7XYZ, 47000, -122000, Txt_dmr, 444000000,
               NULL, NULL, NULL),
    JsonRecord(3, Txt_K7ABC, 47400, -121400, Txt_DSTAR, 148000000,
               Txt_Kent, NULL, Txt_a_b),
    JsonRecord(4, Txt_R0AA, 65000, -179950, Txt_FM, 420000000,
               NULL, Txt_club, NULL),
    JsonRecord(5, Txt_KL7P, 89950, -170000, Txt_YSF, 450000000,
               Txt_Kent, Txt_club, NULL),
    JsonRecord(6, Txt_KK7NUL, 47100, -122100, NULL, 147000000,
               NULL, NULL, Txt_a_b) }

\* records of repeaters.json that lack a key: 7 has no "power", 8 has no
\* "frequency"
PartialRecords ==
  { [id |-> 7, callsign |-> Txt_W7NOP, latitude |-> 47000,
     longitude |-> -122000, city |-> Txt_Kent, group |-> Txt_club,
     internet_node |-> NULL, mode |-> Txt_FM, encode |-> NULL,
     decode |-> NULL, frequency |-> 146000000, offset |-> -600000,
     description |-> NULL, operational |-> TRUE, restriction |-> NULL],
    [id |-> 8, callsign |-> Txt_W7NOF, latitude |-> 47000,
     longitude |-> -122000, city |-> Txt_Kent, group |-> Txt_club,
     internet_node |-> NULL, mode |-> Txt_FM, encode |-> NULL,
     decode |-> NULL, offset |-> -600000, description |-> NULL,
     power |-> NULL, operational |-> TRUE, restriction |-> NULL] }

InputRecords == FullRecords \cup PartialRecords

\* query arguments -----------------------------------------------------------
Origins == { <<47000, -122000>>, <<65000, 179900>>, <<89900, 10000>> }
Positions == { <<r.latitude, r.longitude>> : r \in InputRecords }
Distances == { 50000, 80000, 25000000 }

LatLonArgs ==
  { <<Some(o[1]), Some(o[2])>> : o \in Origins }
    \cup { <<Some(47000), None>>, <<None, Some(-122000)>> }
CallsignLatLonArgs ==
  { <<None, None>>, <<Some(47000), Some(-122000)>>, <<Some(47000), None>> }

\* the modes argument: None, one str, or a list of str
ModesNone == [kind |-> "None", str |-> <<>>, list |-> <<>>]
ModesStr(p) == [kind |-> "str", str |-> p, list |-> <<>>]
ModesList(l) == [kind |-> "list", str |-> <<>>, list |-> l]

MODE_FM == <<"^", "F", "M", "$">>
MODE_DMR == <<"D", "M", "R">>
MODE_D_STAR == <<"D", "\\", "-", "?", "S", "T", "A", "R">>
BadPattern == <<"(">>

ModesArgs ==
  { ModesNone, ModesStr(MODE_FM), ModesList(<<MODE_FM>>),
    ModesList(<<MODE_DMR, MODE_D_STAR>>), ModesList(<<BadPattern>>) }

\* the bands argument: None, or a tree whose inner nodes are Python lists and
\* whose leaves are (low, high) tuples in MHz (held in 10^-4 MHz); a bare
\* number as a leaf is a malformed band.
BandsNone == [kind |-> "None", elems |-> <<>>, lo |-> 0, hi |-> 0]
BandList(l) == [kind |-> "list", elems |-> l, lo |-> 0, hi |-> 0]
BandTuple(l, h) == [kind |-> "tuple", elems |-> <<>>, lo |-> l, hi |-> h]
BandNumber(x) == [kind |-> "number", elems |-> <<>>, lo |-> x, hi |-> x]

BAND_2M == BandList(<<BandTuple(1440000, 1480000)>>)
BAND_70CM == BandList(<<BandTuple(4200000, 4500000)>>)
BandsNested == BandList(<<BAND_2M, BAND_70CM>>)
BandsFlat == BandList(<<BandTuple(1440000, 1480000), BandTuple(4200000, 4500000)>>)
BandsMalformed == BandList(<<BandNumber(1440000)>>)

BandsArgs == { BandsNone, BAND_2M, BAND_70CM, BandsNested, BandsFlat, BandsMalformed }

Txt_KK7 == <<"K", "K", "7">>
Txt_kk7 == <<"k", "k", "7">>
Txt_K7  == <<"K", "7">>
Txt_K_7 == <<"K", "_", "7">>
CallsignArgs == { Txt_KK7, Txt_kk7, Txt_K7, Txt_K_7 }

(***************************************************************************)
(* State                                                                   *)
(***************************************************************************)
VARIABLES
  pc,      \* create_db.py: "start", "connected", "loading", "done" or "failed"
  dbFile,  \* os.path.isfile(REPEATER_DATABASE)
  schema,  \* the file holds the table Repeaters
  table,   \* committed rows of Repeaters, in rowid order
  txn,     \* rows inserted by create_db.py and not yet committed
  call,    \* the last query call, until its caller has taken the result
  ret,     \* what that call gave back
  error,   \* the exception that ended create_db.py, NoError when none did
  geo      \* the values of inverse_haversine (the query boxes) and haversine
           \* for the arguments the model uses, computed once in Init by the
           \* operators above; it never changes and stands for the two pure
           \* functions, which a query step looks up

vars == <<pc, dbFile, schema, table, txn, call, ret, error, geo>>

(***************************************************************************)
(* Ingestion helpers (create_db.py)                                        *)
(***************************************************************************)
\* variant: upper-cased without being stripped
_upper_Unstripped(s) == IF s # NULL THEN Upper(s) ELSE NULL

\* _upper(s)
_upper(s) == IF s # NULL THEN Upper(Strip(s)) ELSE NULL

\* _strip(s)
_strip(s) == IF s # NULL THEN Strip(s) ELSE NULL

\* record[key] raises KeyError(key) for a key the record does not have; the
\* first lookup that fails ends the call
MissingKeys(record) ==
  { i \in 1..Len(RecordKeys) : RecordKeys[i] \notin DOMAIN record }
HasAllKeys(record) == MissingKeys(record) = {}
FirstMissingKey(record) ==
  RecordKeys[CHOOSE i \in MissingKeys(record) :
               \A j \in MissingKeys(record) : i <= j]

\* the uncaught exception that ended the script: its type and its argument
NoError == [exc |-> "", arg |-> ""]
KeyError(key) == [exc |-> "KeyError", arg |-> key]
IntegrityError == [exc |-> "sqlite3.IntegrityError", arg |-> "Repeaters.id"]

\* the row insert_repeater_record(record) binds to the INSERT statement
StoredRow(record) ==
  [id |-> record.id,
   callsign |-> _upper(record.callsign),
   latitude |-> record.latitude,
   longitude |-> record.longitude,
   city |-> _strip(record.city),
   category |-> _upper(record.group),
   internet_node |-> _strip(record.internet_node),
   mode |-> _upper(record.mode),
   encode |-> _strip(record.encode),
   decode |-> _strip(record.decode),
   frequency |-> record.frequency,
   offset |-> record.offset,
   description |-> _strip(record.description),
   power |-> _strip(record.power),
   operational |-> record.operational,
   restriction |-> _strip(record.restriction)]

(***************************************************************************)
(* Query helpers (_repeaters.py)                                           *)
(***************************************************************************)
\* what a call gives back: None, a list of Repeater, or a raised exception
RetIdle == [kind |-> "idle", exc |-> "", list |-> <<>>]
RetNone == [kind |-> "None", exc |-> "", list |-> <<>>]
RetList(l) == [kind |-> "list", exc |-> "", list |-> l]
Raise(e) == [kind |-> "raise", exc |-> e, list |-> <<>>]

Errors == {"TypeError", "re.error"}

\* variant: an absent database answered like an empty one
NoDatabase_EmptyList == RetList(<<>>)

\* `return None` when os.path.isfile(REPEATER_DATABASE) is false
NoDatabase == RetNone

\* cursor.execute(SELECT ..) on a file without the table Repeaters raises
\* sqlite3.OperationalError: no such table
NoSuchTable == Raise("sqlite3.OperationalError")

\* Repeater(id=row[0], ..., distance=d)
Repeater(row, d) ==
  [id |-> row.id, callsign |-> row.callsign, latitude |-> row.latitude,
   longitude |-> row.longitude, city |-> row.city, category |-> row.category,
   internet_node |-> row.internet_node, mode |-> row.mode,
   encode |-> row.encode, decode |-> row.decode, frequency |-> row.frequency,
   offset |-> row.offset, description |-> row.description,
   power |-> row.power, operational |-> row.operational,
   restriction |-> row.restriction, distance |-> d]

\* _flatten_bands(b, lst): the leaves of nested lists, left to right
RECURSIVE _flatten_bands(_)
_flatten_bands(b) ==
  IF b.kind = "list"
  THEN LET RECURSIVE Each(_)
           Each(i) == IF i > Len(b.elems) THEN <<>>
                      ELSE _flatten_bands(b.elems[i]) \o Each(i + 1)
       IN  Each(1)
  ELSE <<b>>

\* if isinstance(modes, str): modes = [modes]
ModesAsList(modes) == IF modes.kind = "str" THEN <<modes.str>> ELSE modes.list

\* if south > north: south, north = -90, 90
\* if west > east: west, east = -180, 180
WidenBox(south, north, west, east) ==
  [south |-> IF south > north THEN -90000 ELSE south,
   north |-> IF south > north THEN 90000 ELSE north,
   west  |-> IF west > east THEN -180000 ELSE west,
   east  |-> IF west > east THEN 180000 ELSE east]

\* the four bounds of the query box: destinations due north, south, east and
\* west of the origin, opened to the full range when south > north or
\* west > east.
BoundingBox(lat, lon, max_distance) ==
  WidenBox(inverse_haversine(<<lat, lon>>, max_distance, SOUTH)[1],
           inverse_haversine(<<lat, lon>>, max_distance, NORTH)[1],
           inverse_haversine(<<lat, lon>>, max_distance, WEST)[2],
           inverse_haversine(<<lat, lon>>, max_distance, EAST)[2])

\* The boxes and distances for the arguments the model uses, as explicit
\* tables (the initial value of geo).
RECURSIVE BoxTable(_)
BoxTable(args) ==
  IF args = {} THEN <<>>
  ELSE LET a == CHOOSE a \in args : TRUE
       IN  (a :> BoundingBox(a[1][1], a[1][2], a[2])) @@ BoxTable(args \ {a})
BoxCache == BoxTable(Origins \X Distances)

RECURSIVE HaversineTable(_)
HaversineTable(args) ==
  IF args = {} THEN <<>>
  ELSE LET a == CHOOSE a \in args : TRUE
       IN  (a :> haversine(a[1], a[2])) @@ HaversineTable(args \ {a})
HaversineCache == HaversineTable(Origins \X Positions)

\* x BETWEEN lo AND hi
Between(x, lo, hi) == lo <= x /\ x <= hi

\* order of lat_lon_index: (latitude, longitude), then rowid
IndexBefore(a, b) ==
  \/ a.latitude < b.latitude
  \/ a.latitude = b.latitude /\ a.longitude < b.longitude

RECURSIVE InsertInIndex(_, _)
InsertInIndex(sorted, x) ==
  IF sorted = <<>> THEN <<x>>
  ELSE IF IndexBefore(x, sorted[Len(sorted)])
       THEN Append(InsertInIndex(SubSeq(sorted, 1, Len(sorted) - 1), x),
                   sorted[Len(sorted)])
       ELSE Append(sorted, x)

RECURSIVE IndexOrder(_)
IndexOrder(rows) ==
  IF rows = <<>> THEN <<>>
  ELSE InsertInIndex(IndexOrder(SubSeq(rows, 1, Len(rows) - 1)), rows[Len(rows)])

\* SELECT .. FROM Repeaters WHERE (latitude BETWEEN ? AND ?) AND
\* (longitude BETWEEN ? AND ?), bound to (south, north, west, east); SQLite
\* walks lat_lon_index, so the rows come in index order.
SelectByBox(rows, box) ==
  IndexOrder(SelectSeq(rows,
     LAMBDA r : /\ Between(r.latitude, box.south, box.north)
                /\ Between(r.longitude, box.west, box.east)))

\* SELECT .. FROM Repeaters WHERE callsign LIKE ? || '%': a table scan, rows
\* in rowid (insertion) order.
SelectByCallsign(rows, callsign) ==
  SelectSeq(rows, LAMBDA r : Like(r.callsign, Append(callsign, "%")))

\* variant: the exact distance is not checked, the box alone decides
WithinDistance_BoxOnly(distance, max_distance) == TRUE

\* `if record.distance > max_distance: continue` does not fire
WithinDistance(distance, max_distance) == ~(distance > max_distance)

\* variant: only the first pattern of modes is tried
ModeLoop_FirstOnly(modes, i, mode) ==
  IF i > Len(modes) THEN "continue"
  ELSE IF ~ValidPattern(modes[i]) THEN "re.error"
  ELSE IF mode = NULL THEN "TypeError"
  ELSE IF ReSearch(modes[i], mode) THEN "found"
  ELSE "continue"

\* the loop `for mode in modes`: "found", "continue" (no pattern matched), or
\* the exception re.search raises (the pattern is compiled first, then the
\* subject must be a str)
RECURSIVE ModeLoop(_, _, _)
ModeLoop(modes, i, mode) ==
  IF i > Len(modes) THEN "continue"
  ELSE IF ~ValidPattern(modes[i]) THEN "re.error"
  ELSE IF mode = NULL THEN "TypeError"
  ELSE IF ReSearch(modes[i], mode) THEN "found"
  ELSE ModeLoop(modes, i + 1, mode)

\* `# Check the mode`
CheckMode(modes, mode) ==
  IF modes.kind = "None" THEN "found" ELSE ModeLoop(ModesAsList(modes), 1, mode)

\* variant: the upper edge of a band is excluded
BandContains_Exclusive(band, frequency) ==
  band.lo * 100 <= frequency /\ frequency < band.hi * 100

\* lf <= record.frequency and record.frequency <= hf, with
\* lf = band[0] * 1000000.0 and hf = band[1] * 1000000.0
BandContains(band, frequency) ==
  band.lo * 100 <= frequency /\ frequency <= band.hi * 100

\* the loop `for band in _bands`; band[0] raises on a leaf that is a number
RECURSIVE BandLoop(_, _, _)
BandLoop(bands_, i, frequency) ==
  IF i > Len(bands_) THEN "continue"
  ELSE IF bands_[i].kind # "tuple" THEN "TypeError"
  ELSE IF BandContains(bands_[i], frequency) THEN "found"
  ELSE BandLoop(bands_, i + 1, frequency)

\* `# Check the band`
CheckBand(bands, frequency) ==
  IF bands.kind = "None" THEN "found" ELSE BandLoop(_flatten_bands(bands), 1, frequency)

\* variant: a sort that puts a record before the records of equal distance
RECURSIVE InsertByDistance_Unstable(_, _)
InsertByDistance_Unstable(sorted, x) ==
  IF sorted = <<>> THEN <<x>>
  ELSE IF x.distance[1] <= sorted[Len(sorted)].distance[1]
       THEN Append(InsertByDistance_Unstable(SubSeq(sorted, 1, Len(sorted) - 1), x),
                   sorted[Len(sorted)])
       ELSE Append(sorted, x)

\* results.sort(key=lambda x: x.distance): ascending and stable
RECURSIVE InsertByDistance(_, _)
InsertByDistance(sorted, x) ==
  IF sorted = <<>> THEN <<x>>
  ELSE IF x.distance[1] < sorted[Len(sorted)].distance[1]
       THEN Append(InsertByDistance(SubSeq(sorted, 1, Len(sorted) - 1), x),
                   sorted[Len(sorted)])
       ELSE Append(sorted, x)

RECURSIVE SortByDistance(_)
SortByDistance(results) ==
  IF results = <<>> THEN <<>>
  ELSE InsertByDistance(SortByDistance(SubSeq(results, 1, Len(results) - 1)),
                        results[Len(results)])

\* the loop `for row in rows` of search_repeaters_by_location and the sort
\* that follows it
RECURSIVE LocationLoop(_, _, _, _, _, _, _)
LocationLoop(rows, i, origin, max_distance, modes, bands, results) ==
  IF i > Len(rows) THEN RetList(SortByDistance(results))
  ELSE LET row    == rows[i]
           record == Repeater(row,
                       Some(geo.haversine[<<origin, <<row.latitude, row.longitude>>>>]))
           m      == CheckMode(modes, record.mode)
           b      == CheckBand(bands, record.frequency)
           skip   == LocationLoop(rows, i + 1, origin, max_distance, modes, bands, results)
       IN  IF ~WithinDistance(record.distance[1], max_distance) THEN skip
           ELSE IF m \in Errors THEN Raise(m)
           ELSE IF m = "continue" THEN skip
           ELSE IF b \in Errors THEN Raise(b)
           ELSE IF b = "continue" THEN skip
           ELSE LocationLoop(rows, i + 1, origin, max_distance, modes, bands,
                             Append(results, record))

\* search_repeaters_by_location(lat, lon, max_distance, modes, bands)
search_repeaters_by_location(isfile, created, rows, lat, lon, max_distance, modes, bands) ==
  IF ~isfile THEN NoDatabase
  ELSE IF lat = None \/ lon = None THEN Raise("TypeError")
  ELSE IF ~created THEN NoSuchTable
  ELSE LET origin == <<lat[1], lon[1]>>
           box    == geo.box[<<origin, max_distance>>]
       IN  LocationLoop(SelectByBox(rows, box), 1, origin, max_distance,
                        modes, bands, <<>>)

\* variant: each kept record is put in front of the results so far
RECURSIVE CallsignLoop_Reversed(_, _, _, _, _, _)
CallsignLoop_Reversed(rows, i, origin, modes, bands, results) ==
  IF i > Len(rows)
  THEN RetList(IF origin # None THEN SortByDistance(results) ELSE results)
  ELSE LET row    == rows[i]
           record == Repeater(row,
                       IF origin = None THEN None
                       ELSE Some(geo.haversine[<<origin[1], <<row.latitude, row.longitude>>>>]))
           m      == CheckMode(modes, record.mode)
           b      == CheckBand(bands, record.frequency)
           skip   == CallsignLoop_Reversed(rows, i + 1, origin, modes, bands, results)
       IN  IF m \in Errors THEN Raise(m)
           ELSE IF m = "continue" THEN skip
           ELSE IF b \in Errors THEN Raise(b)
           ELSE IF b = "continue" THEN skip
           ELSE CallsignLoop_Reversed(rows, i + 1, origin, modes, bands,
                                      <<record>> \o results)

\* the loop `for row in rows` of search_repeaters_by_callsign and the
\* conditional sort that follows it
RECURSIVE CallsignLoop(_, _, _, _, _, _)
CallsignLoop(rows, i, origin, modes, bands, results) ==
  IF i > Len(rows)
  THEN RetList(IF origin # None THEN SortByDistance(results) ELSE results)
  ELSE LET row    == rows[i]
           record == Repeater(row,
                       IF origin = None THEN None
                       ELSE Some(geo.haversine[<<origin[1], <<row.latitude, row.longitude>>>>]))
           m      == CheckMode(modes, record.mode)
           b      == CheckBand(bands, record.frequency)
           skip   == CallsignLoop(rows, i + 1, origin, modes, bands, results)
       IN  IF m \in Errors THEN Raise(m)
           ELSE IF m = "continue" THEN skip
           ELSE IF b \in Errors THEN Raise(b)
           ELSE IF b = "continue" THEN skip
           ELSE CallsignLoop(rows, i + 1, origin, modes, bands,
                             Append(results, record))

\* variant: rows farther than 50 km from a given origin are left out
search_repeaters_by_callsign_Cut(isfile, created, rows, callsign, lat, lon, modes, bands) ==
  IF ~isfile THEN NoDatabase
  ELSE IF ~created THEN NoSuchTable
  ELSE LET origin == IF lat # None /\ lon # None
                     THEN Some(<<lat[1], lon[1]>>) ELSE None
           near(r) == origin = None
                        \/ geo.haversine[<<origin[1], <<r.latitude, r.longitude>>>>] <= 50000
       IN  CallsignLoop(SelectSeq(SelectByCallsign(rows, callsign), near), 1,
                        origin, modes, bands, <<>>)

\* search_repeaters_by_callsign(callsign, lat, lon, modes, bands)
search_repeaters_by_callsign(isfile, created, rows, callsign, lat, lon, modes, bands) ==
  IF ~isfile THEN NoDatabase
  ELSE IF ~created THEN NoSuchTable
  ELSE LET origin == IF lat # None /\ lon # None
                     THEN Some(<<lat[1], lon[1]>>) ELSE None
       IN  CallsignLoop(SelectByCallsign(rows, callsign), 1, origin,
                        modes, bands, <<>>)

(***************************************************************************)
(* Initial state                                                           *)
(***************************************************************************)
NoCall ==
  [op |-> "none", callsign |-> <<>>, lat |-> None, lon |-> None,
   max_distance |-> 0, modes |-> ModesNone, bands |-> BandsNone]

Init ==
  /\ pc = "start"
  /\ dbFile = FALSE
  /\ schema = FALSE
  /\ table = <<>>
  /\ txn = <<>>
  /\ call = NoCall
  /\ ret = RetIdle
  /\ error = NoError
  /\ geo = [box |-> BoxCache, haversine |-> HaversineCache]

(***************************************************************************)
(* create_db.py.  A query is one step (it reads the committed table once), *)
(* and call/ret keep its arguments and outcome until Return; the script's  *)
(* steps are interleaved with the queries, between one call's Return and   *)
(* the next call.                                                          *)
(***************************************************************************)
\* sqlite3.connect(db_filename) creates the file, still without any table.
Connect ==
  /\ ret.kind = "idle"
  /\ pc = "start"
  /\ pc' = "connected"
  /\ dbFile' = TRUE
  /\ UNCHANGED <<schema, table, txn, call, ret, error, geo>>

\* CREATE TABLE IF NOT EXISTS; CREATE INDEX x 3.  The statements are
\* committed as they run: the file now holds an empty table.
CreateSchema ==
  /\ ret.kind = "idle"
  /\ pc = "connected"
  /\ pc' = "loading"
  /\ schema' = TRUE
  /\ UNCHANGED <<dbFile, table, txn, call, ret, error, geo>>

\* insert_repeater_record(record) for the next record of repeaters.json.  A
\* record without one of the keys raises KeyError at record[key]; a second
\* row with the same id violates PRIMARY KEY (sqlite3.IntegrityError).
\* Either exception is not caught: the script dies and its open transaction
\* is rolled back.
insert_repeater_record ==
  /\ ret.kind = "idle"
  /\ pc = "loading"
  /\ Len(txn) < MaxRecords
  /\ \E record \in InputRecords :
       IF ~HasAllKeys(record)
       THEN /\ pc' = "failed"
            /\ error' = KeyError(FirstMissingKey(record))
            /\ txn' = <<>>
       ELSE IF \E k \in 1..Len(txn) : txn[k].id = record.id
       THEN /\ pc' = "failed"
            /\ error' = IntegrityError
            /\ txn' = <<>>
       ELSE /\ pc' = pc
            /\ error' = error
            /\ txn' = Append(txn, StoredRow(record))
  /\ UNCHANGED <<dbFile, schema, table, call, ret, geo>>

\* conn.commit(); conn.close() after the last record
Commit ==
  /\ ret.kind = "idle"
  /\ pc = "loading"
  /\ pc' = "done"
  /\ table' = table \o txn
  /\ txn' = <<>>
  /\ UNCHANGED <<dbFile, schema, call, ret, error, geo>>

(***************************************************************************)
(* Queries                                                                 *)
(***************************************************************************)
CallLocation ==
  /\ ret.kind = "idle"
  /\ \E ll \in LatLonArgs, d \in Distances, m \in ModesArgs, b \in BandsArgs :
       /\ call' = [op |-> "location", callsign |-> <<>>, lat |-> ll[1],
                   lon |-> ll[2], max_distance |-> d, modes |-> m, bands |-> b]
       /\ ret' = search_repeaters_by_location(dbFile, schema, table, ll[1], ll[2], d, m, b)
  /\ UNCHANGED <<pc, dbFile, schema, table, txn, error, geo>>

\* variant: the rows the query selected are taken out of the table
CallCallsign_Consuming ==
  /\ ret.kind = "idle"
  /\ \E c \in CallsignArgs, ll \in CallsignLatLonArgs, m \in ModesArgs, b \in BandsArgs :
       /\ call' = [op |-> "callsign", callsign |-> c, lat |-> ll[1],
                   lon |-> ll[2], max_distance |-> 0, modes |-> m, bands |-> b]
       /\ ret' = search_repeaters_by_callsign(dbFile, schema, table, c, ll[1], ll[2], m, b)
       /\ table' = SelectSeq(table, LAMBDA r : ~Like(r.callsign, Append(c, "%")))
  /\ UNCHANGED <<pc, dbFile, schema, txn, error, geo>>

CallCallsign ==
  /\ ret.kind = "idle"
  /\ \E c \in CallsignArgs, ll \in CallsignLatLonArgs, m \in ModesArgs, b \in BandsArgs :
       /\ call' = [op |-> "callsign", callsign |-> c, lat |-> ll[1],
                   lon |-> ll[2], max_distance |-> 0, modes |-> m, bands |-> b]
       /\ ret' = search_repeaters_by_callsign(dbFile, schema, table, c, ll[1], ll[2], m, b)
  /\ UNCHANGED <<pc, dbFile, schema, table, txn, error, geo>>

\* the caller takes the result
Return ==
  /\ ret.kind # "idle"
  /\ call' = NoCall
  /\ ret' = RetIdle
  /\ UNCHANGED <<pc, dbFile, schema, table, txn, error, geo>>

Next ==
  \/ Connect
  \/ CreateSchema
  \/ insert_repeater_record
  \/ Commit
  \/ CallLocation
  \/ CallCallsign
  \/ Return

Spec == Init /\ [][Next]_vars

(***************************************************************************)
(* Properties                                                              *)
(***************************************************************************)
Listed == ret.kind = "list"
HasOrigin == call.lat # None /\ call.lon # None
Origin == <<call.lat[1], call.lon[1]>>
DistanceTo(r) == geo.haversine[<<Origin, <<r.latitude, r.longitude>>>>]
IdsOf(seq) == { seq[i].id : i \in 1..Len(seq) }
PosIn(seq, id) == CHOOSE i \in 1..Len(seq) : seq[i].id = id

\* the rows the SELECT of the last call returned, in the order it returned them
Fetched ==
  IF call.op = "location" /\ HasOrigin
  THEN SelectByBox(table, geo.box[<<Origin, call.max_distance>>])
  ELSE IF call.op = "callsign" THEN SelectByCallsign(table, call.callsign)
  ELSE <<>>

\* the last call again, with other modes and bands
ReCall(m, b) ==
  IF call.op = "location"
  THEN search_repeaters_by_location(dbFile, schema, table, call.lat, call.lon,
                                 call.max_distance, m, b)
  ELSE search_repeaters_by_callsign(dbFile, schema, table, call.callsign, call.lat,
                                 call.lon, m, b)

\* C1: every record search_repeaters_by_location returns carries its
\* haversine distance to the origin, and that distance is <= max_distance,
\* whatever box fetched the candidates.
C1_WithinMaxDistance ==
  (call.op = "location" /\ Listed) =>
    \A i \in 1..Len(ret.list) :
       /\ ret.list[i].distance = Some(DistanceTo(ret.list[i]))
       /\ DistanceTo(ret.list[i]) <= call.max_distance

\* a location search returned records while a row inside its box, farther
\* away than max_distance, was left out
C1_Witness ==
  /\ call.op = "location" /\ Listed /\ ret.list # <<>>
  /\ \E k \in 1..Len(Fetched) :
        /\ DistanceTo(Fetched[k]) > call.max_distance
        /\ Fetched[k].id \notin IdsOf(ret.list)

\* C2: when the call has an origin, the returned list holds fetched rows,
\* each once, in non-decreasing distance, and records of equal distance keep
\* the relative order in which the SELECT returned them.
C2_SortedStable ==
  (Listed /\ HasOrigin) =>
    /\ IdsOf(ret.list) \subseteq IdsOf(Fetched)
    /\ Cardinality(IdsOf(ret.list)) = Len(ret.list)
    /\ \A i, j \in 1..Len(ret.list) :
         i < j =>
           /\ ret.list[i].distance[1] <= ret.list[j].distance[1]
           /\ ret.list[i].distance[1] = ret.list[j].distance[1]
                => PosIn(Fetched, ret.list[i].id) < PosIn(Fetched, ret.list[j].id)

\* a sorted result with two records at the same distance
C2_Witness ==
  /\ Listed /\ HasOrigin
  /\ \E i, j \in 1..Len(ret.list) :
        i < j /\ ret.list[i].distance = ret.list[j].distance

\* C3: without a database file both operations return None, whatever the
\* other arguments, and an empty list is returned only when the file exists.
C3_NoDataIsNone ==
  /\ (ret.kind # "idle" /\ ~dbFile) => ret = RetNone
  /\ (Listed /\ ret.list = <<>>) => dbFile

\* a location search with a missing longitude and a malformed mode pattern,
\* made before any database exists, returned None
C3_Witness ==
  /\ ~dbFile /\ ret = RetNone
  /\ call.op = "location" /\ call.lon = None
  /\ call.modes = ModesList(<<BadPattern>>)

NoFilters == call.modes = ModesNone /\ call.bands = BandsNone

\* C4: a location search at (65.0, 179.9) with max_distance 50 km returns the
\* stored record at (65.0, -179.95), which lies about 7 km away across the
\* antimeridian.
C4_AntimeridianIncluded ==
  ( /\ call.op = "location" /\ ret.kind # "idle" /\ NoFilters
    /\ call.lat = Some(65000) /\ call.lon = Some(179900)
    /\ call.max_distance = 50000 ) =>
    \A k \in 1..Len(table) :
       (table[k].latitude = 65000 /\ table[k].longitude = -179950)
         => Listed /\ table[k].id \in IdsOf(ret.list)

\* C5: a location search at (89.9, 10.0) with max_distance 50 km returns the
\* stored record at (89.95, -170.0), which lies about 17 km away across the
\* pole.
C5_PoleIncluded ==
  ( /\ call.op = "location" /\ ret.kind # "idle" /\ NoFilters
    /\ call.lat = Some(89900) /\ call.lon = Some(10000)
    /\ call.max_distance = 50000 ) =>
    \A k \in 1..Len(table) :
       (table[k].latitude = 89950 /\ table[k].longitude = -170000)
         => Listed /\ table[k].id \in IdsOf(ret.list)

\* s starts with the literal prefix p, compared without regard to case
StartsWithNoCase(s, p) ==
  s # NULL /\ Len(p) <= Len(s) /\ Upper(SubSeq(s, 1, Len(p))) = Upper(p)

\* C6: search_repeaters_by_callsign selects exactly the records whose
\* callsign starts with the given prefix, compared case-insensitively and
\* literally (no character of the prefix is a wildcard).
C6_LiteralPrefix ==
  (call.op = "callsign" /\ Listed /\ NoFilters) =>
    IdsOf(ret.list)
      = { table[k].id : k \in { n \in 1..Len(table) :
                                  StartsWithNoCase(table[n].callsign, call.callsign) } }

\* C7: on an existing database, a call of either operation with exactly one
\* of lat and lon fails with InvalidQueryError and never returns a list.
C7_HalfOriginRejected ==
  (ret.kind # "idle" /\ dbFile /\ (call.lat = None) # (call.lon = None)) =>
    ret.kind = "raise" /\ ret.exc = "InvalidQueryError"

MalformedFilter ==
  \/ \E i \in 1..Len(ModesAsList(call.modes)) : ~ValidPattern(ModesAsList(call.modes)[i])
  \/ \E i \in 1..Len(_flatten_bands(call.bands)) :
        _flatten_bands(call.bands)[i].kind = "number"

\* C8: on an existing database a query with a malformed filter (an invalid
\* regular expression in modes, a bands element that is not a pair) raises,
\* whatever the table holds; it never returns a list.
C8_MalformedFilterRaises ==
  (ret.kind # "idle" /\ dbFile /\ MalformedFilter) => ret.kind = "raise"

\* the distance cut of the location search, which the callsign search lacks
PassesDistance(r) ==
  call.op = "location" => DistanceTo(r) <= call.max_distance

PatternsOf(m) ==
  IF m.kind = "str" THEN {m.str} ELSE { m.list[i] : i \in 1..Len(m.list) }

ModeKept(m, mode) ==
  m.kind = "None" \/ (mode # NULL /\ \E p \in PatternsOf(m) : ReSearch(p, mode))

\* C9: in both operations, the returned records are exactly the candidates
\* (fetched rows passing the distance cut and the band filter) whose mode is
\* matched by at least one pattern of modes under regex search, all of them
\* when modes is None; and a single string as modes gives the outcome of the
\* one-element list holding it.
C9_ModeFilter ==
  /\ Listed =>
       IdsOf(ret.list)
         = { Fetched[k].id : k \in { n \in 1..Len(Fetched) :
               /\ PassesDistance(Fetched[n])
               /\ CheckBand(call.bands, Fetched[n].frequency) = "found"
               /\ ModeKept(call.modes, Fetched[n].mode) } }
  /\ (ret.kind # "idle" /\ call.modes.kind = "str")
       => ret = ReCall(ModesList(<<call.modes.str>>), call.bands)

\* modes = "^FM$" given as a single string kept a record of mode FM and
\* dropped one of mode DMR
C9_Witness ==
  /\ Listed /\ call.modes = ModesStr(MODE_FM)
  /\ \E i \in 1..Len(ret.list) : ret.list[i].mode = Txt_FM
  /\ \E k \in 1..Len(Fetched) :
        /\ Fetched[k].mode = <<"D", "M", "R">>
        /\ PassesDistance(Fetched[k])
        /\ Fetched[k].id \notin IdsOf(ret.list)

RECURSIVE LeafSet(_)
LeafSet(b) ==
  IF b.kind = "list"
  THEN UNION { LeafSet(b.elems[i]) : i \in 1..Len(b.elems) }
  ELSE {b}

BandKept(b, frequency) ==
  b.kind = "None"
    \/ \E leaf \in LeafSet(b) :
          /\ leaf.kind = "tuple"
          /\ leaf.lo * 100 <= frequency
          /\ frequency <= leaf.hi * 100

\* C10: in both operations, the returned records are exactly the candidates
\* (fetched rows passing the distance cut and the mode filter) whose
\* frequency lies in [low MHz, high MHz], both ends included, for at least
\* one (low, high) leaf of the nested bands lists, all of them when bands is
\* None; and a nested bands value gives the outcome of its flattened list.
C10_BandFilter ==
  /\ Listed =>
       IdsOf(ret.list)
         = { Fetched[k].id : k \in { n \in 1..Len(Fetched) :
               /\ PassesDistance(Fetched[n])
               /\ CheckMode(call.modes, Fetched[n].mode) = "found"
               /\ BandKept(call.bands, Fetched[n].frequency) } }
  /\ (ret.kind # "idle" /\ call.bands = BandsNested)
       => ret = ReCall(call.modes, BandsFlat)

\* bands = [(144, 148)] kept a record at exactly 148 MHz and dropped one at
\* 444 MHz
C10_Witness ==
  /\ Listed /\ call.bands = BAND_2M
  /\ \E i \in 1..Len(ret.list) : ret.list[i].frequency = 148000000
  /\ \E k \in 1..Len(Fetched) :
        /\ Fetched[k].frequency = 444000000
        /\ PassesDistance(Fetched[k])
        /\ Fetched[k].id \notin IdsOf(ret.list)

\* C11: search_repeaters_by_callsign called without a complete origin returns
\* every result with distance None, in the order in which the prefix lookup
\* returned the rows (filtered, not reordered); called with an origin, every
\* result carries its haversine distance to the origin.
C11_CallsignDistanceAndOrder ==
  (call.op = "callsign" /\ Listed) =>
    IF HasOrigin
    THEN \A i \in 1..Len(ret.list) :
            ret.list[i].distance = Some(DistanceTo(ret.list[i]))
    ELSE /\ \A i \in 1..Len(ret.list) : ret.list[i].distance = None
         /\ IdsOf(ret.list) \subseteq IdsOf(Fetched)
         /\ \A i, j \in 1..Len(ret.list) :
               i < j => PosIn(Fetched, ret.list[i].id) < PosIn(Fetched, ret.list[j].id)

\* a callsign search without origin returned two records, and the one
\* returned first is the farther from (47.0, -122.0): the order is not one a
\* sort by distance would give
C11_Witness ==
  /\ call.op = "callsign" /\ Listed
  /\ call.lat = None /\ call.lon = None
  /\ Len(ret.list) = 2
  /\ geo.haversine[<<<<47000, -122000>>, <<ret.list[1].latitude, ret.list[1].longitude>>>>]
       > geo.haversine[<<<<47000, -122000>>, <<ret.list[2].latitude, ret.list[2].longitude>>>>]

\* the origins a callsign search may be given, and none
AnyOrigin == { <<Some(o[1]), Some(o[2])>> : o \in Origins } \cup { <<None, None>> }

\* C12: search_repeaters_by_callsign applies no distance cutoff: the ids it
\* returns are those of all fetched rows that pass the modes and bands
\* filters, however far away, and the same call with any other origin, or
\* with none, returns the same set of ids.
C12_NoDistanceCutoff ==
  (call.op = "callsign" /\ Listed) =>
    /\ IdsOf(ret.list)
         = { Fetched[k].id : k \in { n \in 1..Len(Fetched) :
               /\ CheckMode(call.modes, Fetched[n].mode) = "found"
               /\ CheckBand(call.bands, Fetched[n].frequency) = "found" } }
    /\ \A ll \in AnyOrigin :
         LET other == search_repeaters_by_callsign(dbFile, schema, table, call.callsign,
                                                   ll[1], ll[2], call.modes, call.bands)
         IN  other.kind = "list" /\ IdsOf(other.list) = IdsOf(ret.list)

\* a callsign search with an origin returned a record more than 1000 km
\* away from it
C12_Witness ==
  /\ call.op = "callsign" /\ Listed /\ HasOrigin
  /\ \E i \in 1..Len(ret.list) : ret.list[i].distance[1] > 1000000

\* the stored text columns that come from required fields
RequiredText == { "callsign", "mode" }

\* the required keys of an input record
RequiredKeys ==
  { "id", "callsign", "latitude", "longitude", "mode", "frequency", "offset",
    "operational" }

\* C13: ingestion is all-or-nothing with a typed error: a record that lacks
\* a required field (absent or null) makes ingestion fail with a
\* MalformedRecordError, and no row with a null required field is ever part
\* of the stored dataset.
C13_MalformedRecordAborts ==
  /\ \A k \in 1..Len(table) : \A c \in RequiredText : table[k][c] # NULL
  /\ error.arg \in RequiredKeys => error.exc = "MalformedRecordError"

\* a call with both coordinates or neither, valid patterns in modes and
\* (low, high) pairs in bands
WellFormedCall ==
  /\ (call.lat = None) = (call.lon = None)
  /\ ~MalformedFilter

\* C14: a well-formed query that runs while ingestion is in progress, or after an
\* ingestion that failed, never observes a partially built dataset: until
\* create_db.py has completed, every query returns the "no data" signal None
\* (never an exception, never a list read from a file without the table or
\* without the committed rows).
C14_AtomicPublication ==
  (ret.kind # "idle" /\ WellFormedCall /\ pc # "done") => ret = RetNone

\* the database file as the queries see it, and the script's open transaction
Dataset == <<dbFile, schema, table, txn>>

\* the call whose result is held, made again in the state it left behind
Redo == ReCall(call.modes, call.bands)

\* C15: queries are read-only and idempotent: a step in which a query runs
\* (returning None, a list or an exception) leaves the database file, its
\* table and rows unchanged, and the identical query made again after it
\* gives the identical result, the list in the same order.
C15_ReadOnlyIdempotent ==
  [][/\ (ret.kind = "idle" /\ ret'.kind # "idle") => Dataset' = Dataset
     /\ ret.kind # "idle" => ret = Redo]_vars

\* a callsign search returned both rows of a two-row table
C15_Witness ==
  /\ call.op = "callsign" /\ Listed
  /\ Len(table) = 2 /\ Len(ret.list) = 2

\* out is v without its surrounding whitespace (null stays null): v is out
\* with a whitespace characters before it and only whitespace after it
IsTrimOf(out, v) ==
  IF v = NULL THEN out = NULL
  ELSE /\ out # NULL
       /\ Len(out) <= Len(v)
       /\ \E a \in 0..(Len(v) - Len(out)) :
            /\ SubSeq(v, a + 1, a + Len(out)) = out
            /\ \A i \in 1..a : v[i] \in Whitespace
            /\ \A i \in (a + Len(out) + 1)..Len(v) : v[i] \in Whitespace
       /\ out # <<>> => out[1] \notin Whitespace /\ out[Len(out)] \notin Whitespace

\* out is v without its surrounding whitespace and in upper case
IsUpperTrimOf(out, v) ==
  IF v = NULL THEN out = NULL
  ELSE /\ out # NULL
       /\ Len(out) <= Len(v)
       /\ \E a \in 0..(Len(v) - Len(out)) :
            /\ IsTrimOf(SubSeq(v, a + 1, a + Len(out)), v)
            /\ \A i \in 1..Len(out) : out[i] = UpperChar(v[a + i])

\* the input record a stored row was made from
InputOf(row) == CHOOSE r \in FullRecords : r.id = row.id

\* the columns stored stripped and the columns stored as they are
StrippedColumns ==
  { "city", "internet_node", "encode", "decode", "description", "power",
    "restriction" }
PlainColumns ==
  { "id", "latitude", "longitude", "frequency", "offset", "operational" }

\* the normalisation of every column but category
NormalizedExceptCategory(row) ==
  /\ row.id \in { r.id : r \in FullRecords }
  /\ IsUpperTrimOf(row.callsign, InputOf(row).callsign)
  /\ IsUpperTrimOf(row.mode, InputOf(row).mode)
  /\ \A c \in StrippedColumns : IsTrimOf(row[c], InputOf(row)[c])
  /\ \A c \in PlainColumns : row[c] = InputOf(row)[c]

\* C16 as stated: in every dataset produced by ingestion every stored string
\* field is its input value stripped of surrounding whitespace, callsign and
\* mode (and only they) are upper-cased in addition, and the numeric fields
\* and the operational flag are stored unchanged.
C16_OnlyCallsignAndModeUpper ==
  \A k \in 1..Len(table) :
     /\ NormalizedExceptCategory(table[k])
     /\ IsTrimOf(table[k].category, InputOf(table[k]).group)

\* C16 (amended): as stated, except that category, the column filled from the
\* input key "group", is upper-cased as well: stored category =
\* upper(trim(input group)).
C16_Normalized ==
  \A k \in 1..Len(table) :
     /\ NormalizedExceptCategory(table[k])
     /\ IsUpperTrimOf(table[k].category, InputOf(table[k]).group)

\* the dataset holds the row made from the record with callsign " kk7cmt",
\* city " Kent ", group "club " and description " a b"
C16_Witness ==
  /\ pc = "done"
  /\ \E k \in 1..Len(table) :
        /\ table[k].callsign = <<"K", "K", "7", "C", "M", "T">>
        /\ table[k].city = <<"K", "e", "n", "t">>
        /\ table[k].category = <<"C", "L", "U", "B">>
        /\ table[k].description = <<"a", " ", "b">>

\* the optional keys of an input record
OptionalKeys ==
  { "city", "group", "internet_node", "encode", "decode", "description",
    "power", "restriction" }

\* C17: ingestion accepts a record in which an optional field is missing,
\* whether its key is absent or its value is null: ingestion never fails over
\* an optional key, and a null optional value is stored as null.
C17_OptionalFieldsAccepted ==
  /\ error.arg \notin OptionalKeys
  /\ \A k \in 1..Len(table) :
        \A c \in StrippedColumns :
           InputOf(table[k])[c] = NULL => table[k][c] = NULL

\* the point <<lat, lon>> lies in the box
InBox(point, box) ==
  /\ Between(point[1], box.south, box.north)
  /\ Between(point[2], box.west, box.east)

\* C18: the box search_repeaters_by_location selects with contains the
\* origin and every stored record whose haversine distance to the origin is
\* <= max_distance, so the records returned are exactly the stored records
\* within max_distance that pass the modes and bands filters.
C18_BoxEncloses ==
  (call.op = "location" /\ Listed) =>
    LET box == geo.box[<<Origin, call.max_distance>>]
    IN  /\ InBox(Origin, box)
        /\ \A k \in 1..Len(table) :
              DistanceTo(table[k]) <= call.max_distance
                => InBox(<<table[k].latitude, table[k].longitude>>, box)
        /\ IdsOf(ret.list)
             = { table[k].id : k \in { n \in 1..Len(table) :
                   /\ DistanceTo(table[n]) <= call.max_distance
                   /\ CheckMode(call.modes, table[n].mode) = "found"
                   /\ CheckBand(call.bands, table[n].frequency) = "found" } }

\* C19: on a dataset that ingestion completed without error, every
\* well-formed query returns a list and never raises, whatever records the
\* ingestion accepted (a record stored with a null mode included).
C19_AcceptedRecordsAreQueryable ==
  (pc = "done" /\ ret.kind # "idle" /\ WellFormedCall) => Listed

=============================================================================
